---------------------------- MODULE Spec2Model ----------------------------
(***************************************************************************)
(* A model of package relax (src/clent.go; src/pkg/client holds the same   *)
(* code split over two files): an HTTP client with an optional cache and   *)
(* an optional rate limiter.                                               *)
(*                                                                         *)
(* Two groups of state:                                                    *)
(*   construction  heap, clients         New, the options and the features *)
(*   operation     store, tokens, pc ... Client.Do and Client.Get, run by  *)
(*                                       concurrent callers on clients[1]  *)
(*   arguments     newArgs, modArgs      what New and the callers were     *)
(*                                       given, kept by SpecBuild/SpecMods *)
(*                                                                         *)
(* Specifications: Spec (Do and Get), LiveSpec (Spec with fairness, on a   *)
(* client with a limiter), SpecNew (clients built one after another),      *)
(* SpecBuild (one New, any arguments), SpecMods (the modifiers of a call). *)
(*                                                                         *)
(* The three collaborators are modelled by what the client code observes   *)
(* of them: the transport (http.Client.Do) answers a request with a fresh  *)
(* response or with an error; the cache (go-cache) is a map from keys to   *)
(* values, observed before any entry's expiration has elapsed; the limiter *)
(* (x/time/rate) is a token bucket that starts full, whose Wait takes one  *)
(* token, blocks while none is left, and fails at once when the burst is   *)
(* smaller than the one token asked for.  Durations are whole seconds.     *)
(***************************************************************************)
EXTENDS Integers, Sequences, FiniteSets, TLC

(***************************************************************************)
(* Bounds of the model.                                                    *)
(***************************************************************************)
MaxCalls == 2
MaxRegen == 1
MaxBurst == 1
MaxFeats == 2
MaxMods == 2
MaxClients == 2

Procs == {1, 2}

(***************************************************************************)
(* Program constants.                                                      *)
(***************************************************************************)
DefaultTimeout == 5
DefaultExpiration == 300
DefaultCleanupInterval == 600
DefaultLimit == 10
DefaultBurst == 10

(***************************************************************************)
(* Values.  A pointer that may be nil is a record with a nil field.        *)
(***************************************************************************)
Nil == [nil |-> TRUE]

\* Handles of http.Client objects: 0 is http.DefaultClient, 1 a client the
\* caller owns; cred.Client(ctx) allocates the next free handle.
DefaultClient == 0
CallerClient == 1

Durations == {1, 2}
Bursts == 0 .. MaxBurst
Creds == {[nil |-> FALSE, ClientID |-> "key", ClientSecret |-> "secret",
           TokenURL |-> "tok"]}

\* type Client struct
Client(cache, credentials, http, limiter, timeout) ==
    [Cache |-> cache, Credentials |-> credentials, HTTP |-> http,
     Limiter |-> limiter, Timeout |-> timeout]

\* &Client{}: every field at its zero value.  HTTP is a nil pointer: -1.
NilHTTP == 0 - 1
ZeroClient == Client(Nil, Nil, NilHTTP, Nil, 0)

(***************************************************************************)
(* Options: each is a function of the client being built and of the heap   *)
(* of http.Client objects (heap[h] is the Timeout field of object h).      *)
(***************************************************************************)
FromClient(http) == [o |-> "FromClient", http |-> http, cred |-> Nil]

FromDefaultClient == FromClient(DefaultClient)

FromConfig(cred) == [o |-> "FromConfig", http |-> NilHTTP, cred |-> cred]

FromCredentials(apiKey, apiKeySecret, tokenURL) ==
    FromConfig([nil |-> FALSE, ClientID |-> apiKey,
                ClientSecret |-> apiKeySecret, TokenURL |-> tokenURL])

\* The closure an option returns, applied to c.
ApplyOption(option, st) ==
    IF option.o = "FromClient"
    THEN [client |-> [st.client EXCEPT !.HTTP = option.http], heap |-> st.heap]
    ELSE LET fresh == Len(st.heap)
         IN  [client |-> [st.client EXCEPT !.Credentials = option.cred,
                                           !.HTTP = fresh],
              heap |-> Append(st.heap, 0)]

(***************************************************************************)
(* Features.                                                               *)
(***************************************************************************)
WithTimeout(duration) ==
    [f |-> "WithTimeout", duration |-> duration, a |-> 0, b |-> 0]

WithDefaultTimeout(duration) == WithTimeout(DefaultTimeout)

WithCache(defaultExpiration, cleanupInterval) ==
    [f |-> "WithCache", duration |-> 0,
     a |-> defaultExpiration, b |-> cleanupInterval]

WithDefaultCache == WithCache(DefaultExpiration, DefaultCleanupInterval)

WithLimiter(limit, burst) ==
    [f |-> "WithLimiter", duration |-> 0, a |-> limit, b |-> burst]

WithDefaultLimiter == WithLimiter(DefaultLimit, DefaultBurst)

\* cache.New(defaultExpiration, cleanupInterval)
NewCache(defaultExpiration, cleanupInterval) ==
    [nil |-> FALSE, defaultExpiration |-> defaultExpiration,
     cleanupInterval |-> cleanupInterval]

\* rate.NewLimiter(limit, burst)
NewLimiter(limit, burst) == [nil |-> FALSE, limit |-> limit, burst |-> burst]

\* heap is a sequence; handle h lives at index h + 1.
HeapSet(heap, h, timeout) == [heap EXCEPT ![h + 1] = timeout]
HeapGet(heap, h) == heap[h + 1]

\* The closure a feature returns, applied to c.
ApplyFeature(feat, st) ==
    CASE feat.f = "WithTimeout" ->
           [client |-> [st.client EXCEPT !.Timeout = feat.duration],
            heap |-> HeapSet(st.heap, st.client.HTTP, feat.duration)]
      [] feat.f = "WithCache" ->
           [client |-> [st.client EXCEPT !.Cache = NewCache(feat.a, feat.b)],
            heap |-> st.heap]
      [] feat.f = "WithLimiter" ->
           [client |-> [st.client EXCEPT !.Limiter = NewLimiter(feat.a, feat.b)],
            heap |-> st.heap]

\* ApplyFeatures with the loop run from the last feature to the first.
RECURSIVE ApplyFeatures_Reversed(_, _)
ApplyFeatures_Reversed(feats, st) ==
    IF feats = << >> THEN st
    ELSE ApplyFeature(Head(feats), ApplyFeatures_Reversed(Tail(feats), st))

RECURSIVE ApplyFeatures(_, _)
ApplyFeatures(feats, st) ==
    IF feats = << >> THEN st
    ELSE ApplyFeatures(Tail(feats), ApplyFeature(Head(feats), st))

\* New(option, feats...): the client built, and the heap after building it.
New(option, feats, heap) ==
    ApplyFeatures(feats, ApplyOption(option, [client |-> ZeroClient, heap |-> heap]))


(***************************************************************************)
(* Modifiers.                                                              *)
(***************************************************************************)
UseCache(use) == [m |-> "UseCache", use |-> use]

UseLimiter(use) == [m |-> "UseLimiter", use |-> use]

\* &Modifiers{}
ZeroModifiers == [UseCache |-> FALSE, UseLimiter |-> FALSE]

\* ApplyMod with UseLimiter's closure writing the field of UseCache's.
ApplyMod_SameField(mod, m) == [m EXCEPT !.UseCache = mod.use]

\* The closure a modifier returns, applied to m.
ApplyMod(mod, m) ==
    IF mod.m = "UseCache" THEN [m EXCEPT !.UseCache = mod.use]
    ELSE [m EXCEPT !.UseLimiter = mod.use]

RECURSIVE ApplyModsTo(_, _)
ApplyModsTo(mods, m) ==
    IF mods = << >> THEN m
    ELSE ApplyModsTo(Tail(mods), ApplyMod(Head(mods), m))

\* modifiers := &Modifiers{}; for _, mod := range mods { mod(modifiers) }
ApplyMods(mods) == ApplyModsTo(mods, ZeroModifiers)

(***************************************************************************)
(* Requests, responses and errors.                                         *)
(***************************************************************************)
Urls == {"a", "b"}
BadUrl == "%"
GetUrls == Urls \cup {BadUrl}

Request(method, url) == [method |-> method, url |-> url]
NoRequest == Request("", "")

\* The requests callers hand to Do directly.
Reqs == {Request("GET", "a"), Request("POST", "a")}

\* The response the transport produces for req in call number id.
Response(req, id) == [nil |-> FALSE, req |-> req, id |-> id]

NoErr == "nil"
ErrLimiter == "relax: limiter not defined"
ErrCache == "relax: cache not defined"
ErrWait == "rate: Wait(n=1) exceeds limiter's burst"
ErrTransport == "http: transport failure"
ErrURL == "parse: invalid URL"

\* http.NewRequest("GET", url, nil)
NewRequest(method, url) ==
    IF url \in Urls THEN [req |-> Request(method, url), err |-> NoErr]
    ELSE [req |-> NoRequest, err |-> ErrURL]


(***************************************************************************)
(* State.                                                                  *)
(***************************************************************************)
VARIABLES
    heap,         \* the http.Client objects: heap[h + 1] is the Timeout of h
    clients,      \* the Clients New has returned, in order
    store,        \* the items of clients[1].Cache: key -> value
    tokens,       \* the tokens clients[1].Limiter holds
    regenerated,  \* tokens the limiter has regenerated so far
    started,      \* calls of Do and Get made so far
    limitedSent,  \* transport calls made by a Do whose UseLimiter is set
    fetched,      \* url -> the response the transport gave the last
                  \* completed Get(url) that had UseCache set, or Nil
    pc,           \* where each caller is
    frame,        \* each caller's locals
    newArgs,      \* the option and the features given to New, where kept
    modArgs       \* the modifiers each caller gave its call, where kept

vars == <<heap, clients, store, tokens, regenerated, started, limitedSent,
          fetched, pc, frame, newArgs, modArgs>>

newvars == <<heap, clients>>
opvars == <<store, tokens, regenerated, started, limitedSent, fetched, pc, frame>>
argvars == <<newArgs, modArgs>>

\* The receiver of Do and Get.
c == clients[1]

\* The handles that exist before any client is built.
InitHeap == <<0, 0>>

\* A caller's locals.  req, dom, and the resp and err that Do hands back are
\* Do's; url, getm, cached, found are Get's.  id numbers the call; c0 is the
\* receiver as the call found it; prior is fetched[url] as the call found
\* it; consumed, sent, reads and writes count what the call has done to the
\* limiter, the transport and the cache.
IdleFrame ==
    [op |-> "none", req |-> NoRequest, url |-> "", getm |-> ZeroModifiers,
     dom |-> ZeroModifiers, cached |-> Nil, found |-> FALSE,
     resp |-> Nil, err |-> NoErr,
     id |-> 0, c0 |-> ZeroClient, prior |-> Nil,
     consumed |-> 0, sent |-> 0, reads |-> 0, writes |-> 0]

(***************************************************************************)
(* The inputs callers draw from.                                           *)
(***************************************************************************)
RECURSIVE SeqsUpTo(_, _)
SeqsUpTo(S, n) ==
    IF n = 0 THEN {<< >>}
    ELSE LET shorter == SeqsUpTo(S, n - 1)
         IN  shorter \cup {Append(q, x) : q \in shorter, x \in S}

Mods == {UseCache(b) : b \in BOOLEAN} \cup {UseLimiter(b) : b \in BOOLEAN}
ModLists == SeqsUpTo(Mods, MaxMods)

\* The features of the clients Do and Get are run on.
OpFeats ==
    {WithCache(DefaultExpiration, DefaultCleanupInterval)}
        \cup {WithLimiter(DefaultLimit, b) : b \in Bursts}
OpFeatLists == SeqsUpTo(OpFeats, 2)

Init ==
    /\ \E feats \in OpFeatLists :
         LET built == New(FromDefaultClient, feats, InitHeap)
         IN  /\ clients = <<built.client>>
             /\ heap = built.heap
             /\ tokens = IF built.client.Limiter.nil THEN 0
                         ELSE built.client.Limiter.burst
    /\ store = << >>
    /\ regenerated = 0
    /\ started = 0
    /\ limitedSent = 0
    /\ fetched = [u \in Urls |-> Nil]
    /\ pc = [p \in Procs |-> "idle"]
    /\ frame = [p \in Procs |-> IdleFrame]
    /\ newArgs = << >>
    /\ modArgs = [p \in Procs |-> << >>]

(***************************************************************************)
(* Client.Do                                                               *)
(***************************************************************************)
\* Do hands (resp, err) back: to the caller, or to the Get that called it.
DoReturns(p, f, resp, err) ==
    /\ frame' = [frame EXCEPT ![p] = [f EXCEPT !.resp = resp, !.err = err]]
    /\ pc' = [pc EXCEPT ![p] = IF f.op = "Do" THEN "done" ELSE "Get_after"]

\* A caller calls c.Do(req, mods...): the modifiers are built.
CallDo(p) ==
    /\ pc[p] = "idle"
    /\ started < MaxCalls
    /\ \E req \in Reqs, mods \in ModLists :
         frame' = [frame EXCEPT ![p] =
                     [IdleFrame EXCEPT !.op = "Do", !.req = req,
                                       !.dom = ApplyMods(mods),
                                       !.id = started + 1, !.c0 = c]]
    /\ pc' = [pc EXCEPT ![p] = "Do_limiter"]
    /\ started' = started + 1
    /\ UNCHANGED <<newvars, argvars, store, tokens, regenerated, limitedSent, fetched>>

\* LimiterGate with the wait left out: a limiter that is there is not asked.
LimiterGate_NoWait(client, modifiers) ==
    IF ~modifiers.UseLimiter THEN "skip"
    ELSE IF client.Limiter.nil THEN "undefined"
    ELSE IF client.Limiter.burst < 1 THEN "exceeds"
    ELSE "skip"

\* LimiterGate with the test of UseLimiter left out: a limiter that is there
\* is always asked.
LimiterGate_Always(client, modifiers) ==
    IF client.Limiter.nil
    THEN IF modifiers.UseLimiter THEN "undefined" ELSE "skip"
    ELSE IF client.Limiter.burst < 1 THEN "exceeds"
    ELSE "wait"

\* What the limiter step of Do comes to: "skip" it, fail because the limiter
\* is "undefined", fail because Wait "exceeds" the burst, or "wait".
LimiterGate(client, modifiers) ==
    IF ~modifiers.UseLimiter THEN "skip"
    ELSE IF client.Limiter.nil THEN "undefined"
    ELSE IF client.Limiter.burst < 1 THEN "exceeds"
    ELSE "wait"

\* DoLimiter asking Wait for two tokens at a time.
DoLimiter_WaitTwo(p) ==
    /\ pc[p] = "Do_limiter"
    /\ LET f == frame[p]
           gate == LimiterGate(c, f.dom)
       IN  CASE gate = "skip" ->
                  /\ pc' = [pc EXCEPT ![p] = "Do_http"]
                  /\ UNCHANGED <<frame, tokens>>
             [] gate = "undefined" ->
                  /\ DoReturns(p, f, Nil, ErrLimiter)
                  /\ UNCHANGED tokens
             [] gate = "exceeds" ->
                  /\ DoReturns(p, f, Nil, ErrWait)
                  /\ UNCHANGED tokens
             [] gate = "wait" ->
                  /\ tokens > 1
                  /\ tokens' = tokens - 2
                  /\ frame' = [frame EXCEPT ![p].consumed = f.consumed + 2]
                  /\ pc' = [pc EXCEPT ![p] = "Do_http"]
    /\ UNCHANGED <<newvars, argvars, store, regenerated, started, limitedSent, fetched>>

\* if modifiers.UseLimiter { ... c.Limiter.Wait(ctx) ... }
DoLimiter(p) ==
    /\ pc[p] = "Do_limiter"
    /\ LET f == frame[p]
           gate == LimiterGate(c, f.dom)
       IN  CASE gate = "skip" ->
                  /\ pc' = [pc EXCEPT ![p] = "Do_http"]
                  /\ UNCHANGED <<frame, tokens>>
             [] gate = "undefined" ->
                  /\ DoReturns(p, f, Nil, ErrLimiter)
                  /\ UNCHANGED tokens
             [] gate = "exceeds" ->
                  /\ DoReturns(p, f, Nil, ErrWait)
                  /\ UNCHANGED tokens
             [] gate = "wait" ->
                  /\ tokens > 0
                  /\ tokens' = tokens - 1
                  /\ frame' = [frame EXCEPT ![p].consumed = f.consumed + 1]
                  /\ pc' = [pc EXCEPT ![p] = "Do_http"]
    /\ UNCHANGED <<newvars, argvars, store, regenerated, started, limitedSent, fetched>>

\* What Do returns for what the transport returned.
DoResult(resp, err) ==
    IF err # NoErr THEN [resp |-> Nil, err |-> err]
    ELSE [resp |-> resp, err |-> NoErr]

\* DoHTTP with one retry: a failed transport call is made again.
DoHTTP_Retry(p) ==
    /\ pc[p] = "Do_http"
    /\ LET f == frame[p]
       IN  \E ok \in BOOLEAN, again \in BOOLEAN :
             LET g == [f EXCEPT !.sent = IF ok THEN f.sent + 1 ELSE f.sent + 2]
                 r == IF ok \/ again THEN DoResult(Response(f.req, f.id), NoErr)
                      ELSE DoResult(Nil, ErrTransport)
             IN  /\ DoReturns(p, g, r.resp, r.err)
                 /\ limitedSent' = IF f.dom.UseLimiter THEN limitedSent + 1
                                   ELSE limitedSent
    /\ UNCHANGED <<newvars, argvars, store, tokens, regenerated, started, fetched>>

\* resp, err := c.HTTP.Do(req), and Do's return.
DoHTTP(p) ==
    /\ pc[p] = "Do_http"
    /\ LET f == frame[p]
           g == [f EXCEPT !.sent = f.sent + 1]
       IN  \E ok \in BOOLEAN :
             LET r == IF ok THEN DoResult(Response(f.req, f.id), NoErr)
                      ELSE DoResult(Nil, ErrTransport)
             IN  /\ DoReturns(p, g, r.resp, r.err)
                 /\ limitedSent' = IF f.dom.UseLimiter THEN limitedSent + 1
                                   ELSE limitedSent
    /\ UNCHANGED <<newvars, argvars, store, tokens, regenerated, started, fetched>>

(***************************************************************************)
(* Client.Get                                                              *)
(***************************************************************************)
\* A caller calls c.Get(url, mods...): the modifiers are built.
CallGet(p) ==
    /\ pc[p] = "idle"
    /\ started < MaxCalls
    /\ \E url \in GetUrls, mods \in ModLists :
         frame' = [frame EXCEPT ![p] =
                     [IdleFrame EXCEPT !.op = "Get", !.url = url,
                                       !.getm = ApplyMods(mods),
                                       !.id = started + 1, !.c0 = c,
                                       !.prior = IF url \in Urls
                                                 THEN fetched[url] ELSE Nil]]
    /\ pc' = [pc EXCEPT ![p] = "Get_cache"]
    /\ started' = started + 1
    /\ UNCHANGED <<newvars, argvars, store, tokens, regenerated, limitedSent, fetched>>

\* c.Cache.Get(url)
CacheGet(items, k) ==
    IF k \in DOMAIN items THEN [cached |-> items[k], found |-> TRUE]
    ELSE [cached |-> Nil, found |-> FALSE]

\* CacheSetDefault with the key normalised away: every value goes under "a".
CacheSetDefault_OneKey(items, k, x) ==
    [key \in DOMAIN items \cup {"a"} |-> IF key = "a" THEN x ELSE items[key]]

\* c.Cache.SetDefault(k, x)
CacheSetDefault(items, k, x) ==
    [key \in DOMAIN items \cup {k} |-> IF key = k THEN x ELSE items[key]]

\* CacheGate with the nil test left out: a missing cache is a miss.
CacheGate_NoNilCheck(client, modifiers) ==
    IF ~modifiers.UseCache THEN "skip"
    ELSE IF client.Cache.nil THEN "skip"
    ELSE "lookup"

\* CacheGate with the test of UseCache left out: a cache that is there is
\* always looked up.
CacheGate_Always(client, modifiers) ==
    IF client.Cache.nil
    THEN IF modifiers.UseCache THEN "undefined" ELSE "skip"
    ELSE "lookup"

\* What the cache step of Get comes to: "skip" it, fail because the cache is
\* "undefined", or "lookup".
CacheGate(client, modifiers) ==
    IF ~modifiers.UseCache THEN "skip"
    ELSE IF client.Cache.nil THEN "undefined"
    ELSE "lookup"

\* ServeCached with found ignored: every lookup is taken for a miss.
ServeCached_Never(found) == FALSE

\* What to do with a lookup's answer: return the cached value, or go on.
ServeCached(found) == found

\* GetDoMods with the limiter always asked for: c.Do(req, UseLimiter(true)).
GetDoMods_Limited == <<UseLimiter(TRUE)>>

\* The modifiers Get passes on to Do: c.Do(req).
GetDoMods == << >>

\* if modifiers.UseCache { ... }; req, err := http.NewRequest(...); c.Do(req)
GetCache(p) ==
    /\ pc[p] = "Get_cache"
    /\ LET f == frame[p]
           gate == CacheGate(c, f.getm)
           look == IF gate = "lookup" THEN CacheGet(store, f.url)
                   ELSE [cached |-> Nil, found |-> FALSE]
           g == [f EXCEPT !.cached = look.cached, !.found = look.found,
                          !.reads = IF gate = "lookup" THEN f.reads + 1
                                    ELSE f.reads]
           made == NewRequest("GET", f.url)
       IN  IF gate = "undefined"
           THEN /\ frame' = [frame EXCEPT ![p] = [f EXCEPT !.err = ErrCache]]
                /\ pc' = [pc EXCEPT ![p] = "done"]
           ELSE IF gate = "lookup" /\ ServeCached(look.found)
           THEN /\ frame' = [frame EXCEPT ![p] = [g EXCEPT !.resp = look.cached]]
                /\ pc' = [pc EXCEPT ![p] = "done"]
           ELSE IF made.err # NoErr
           THEN /\ frame' = [frame EXCEPT ![p] = [g EXCEPT !.err = made.err]]
                /\ pc' = [pc EXCEPT ![p] = "done"]
           ELSE /\ frame' = [frame EXCEPT ![p] =
                               [g EXCEPT !.req = made.req,
                                         !.dom = ApplyMods(GetDoMods)]]
                /\ pc' = [pc EXCEPT ![p] = "Do_limiter"]
    /\ UNCHANGED <<newvars, argvars, store, tokens, regenerated, started, limitedSent,
                   fetched>>

\* What Get does with what Do handed back: what it returns, and whether it
\* stores resp in the cache.
GetAfterDo(resp, err, modifiers) ==
    IF err = NoErr THEN [resp |-> Nil, err |-> err, set |-> FALSE]
    ELSE [resp |-> resp, err |-> err, set |-> modifiers.UseCache]

\* resp, err = c.Do(req); if err == nil { ... }; if modifiers.UseCache { ... }
GetStore(p) ==
    /\ pc[p] = "Get_after"
    /\ LET f == frame[p]
           r == GetAfterDo(f.resp, f.err, f.getm)
       IN  /\ store' = IF r.set THEN CacheSetDefault(store, f.url, f.resp)
                       ELSE store
           /\ frame' = [frame EXCEPT ![p] =
                          [f EXCEPT !.resp = r.resp, !.err = r.err,
                                    !.writes = IF r.set THEN f.writes + 1
                                               ELSE f.writes]]
           /\ fetched' = IF f.err = NoErr /\ f.getm.UseCache
                         THEN [fetched EXCEPT ![f.url] = f.resp]
                         ELSE fetched
    /\ pc' = [pc EXCEPT ![p] = "done"]
    /\ UNCHANGED <<newvars, argvars, tokens, regenerated, started, limitedSent>>

\* The caller takes the result; it may call again.
Return(p) ==
    /\ pc[p] = "done"
    /\ pc' = [pc EXCEPT ![p] = "idle"]
    /\ frame' = [frame EXCEPT ![p] = IdleFrame]
    /\ UNCHANGED <<newvars, argvars, store, tokens, regenerated, started, limitedSent,
                   fetched>>

\* Time passes: the limiter regenerates a token, up to its burst.
Regenerate ==
    /\ ~c.Limiter.nil
    /\ tokens < c.Limiter.burst
    /\ regenerated < MaxRegen
    /\ tokens' = tokens + 1
    /\ regenerated' = regenerated + 1
    /\ UNCHANGED <<newvars, argvars, store, started, limitedSent, fetched, pc, frame>>

Next ==
    \/ \E p \in Procs :
         \/ CallDo(p)
         \/ DoLimiter(p)
         \/ DoHTTP(p)
         \/ CallGet(p)
         \/ GetCache(p)
         \/ GetStore(p)
         \/ Return(p)
    \/ Regenerate

Spec == Init /\ [][Next]_vars


(***************************************************************************)
(* Construction: callers build clients with New, one after another.        *)
(***************************************************************************)
Options ==
    {FromDefaultClient, FromClient(CallerClient)}
        \cup {FromConfig(cred) : cred \in Creds}
        \cup {FromCredentials("key", "secret", "tok")}

Feats ==
    {WithTimeout(d) : d \in Durations}
        \cup {WithDefaultTimeout(d) : d \in Durations}
        \cup {WithDefaultCache, WithDefaultLimiter}
FeatLists == SeqsUpTo(Feats, MaxFeats)

InitNew ==
    /\ heap = InitHeap
    /\ clients = << >>
    /\ store = << >>
    /\ tokens = 0
    /\ regenerated = 0
    /\ started = 0
    /\ limitedSent = 0
    /\ fetched = [u \in Urls |-> Nil]
    /\ pc = [p \in Procs |-> "idle"]
    /\ frame = [p \in Procs |-> IdleFrame]
    /\ newArgs = << >>
    /\ modArgs = [p \in Procs |-> << >>]

\* client := New(option, feats...)
NewClient ==
    /\ Len(clients) < MaxClients
    /\ \E option \in Options, feats \in FeatLists :
         LET built == New(option, feats, heap)
         IN  /\ clients' = Append(clients, built.client)
             /\ heap' = built.heap
    /\ UNCHANGED <<opvars, argvars>>

NextNew == NewClient

SpecNew == InitNew /\ [][NextNew]_vars

\* The timeout in force on a client's transport.
EffectiveTimeout(client, h) == HeapGet(h, client.HTTP)


(***************************************************************************)
(* Properties.                                                             *)
(***************************************************************************)
Done(p) == pc[p] = "done"

\* C1: On a client with a cache, once a Get(url) with UseCache set has
\* completed with the transport succeeding, a later Get(url) with UseCache
\* set returns that same response, with no error and without calling the
\* transport.
C1_CachedRepeat ==
    \A p \in Procs :
        LET f == frame[p]
        IN  (Done(p) /\ f.op = "Get" /\ f.getm.UseCache /\ ~c.Cache.nil
               /\ ~f.prior.nil)
            => (f.resp = f.prior /\ f.err = NoErr /\ f.sent = 0)

\* C2: On a client without a limiter, a call whose modifiers leave
\* UseLimiter set returns the error "limiter not defined": every Do, and
\* every Get (stated here for the Gets that no cache step and no malformed
\* url ends first).
C2_LimiterRequired ==
    \A p \in Procs :
        LET f == frame[p]
        IN  (Done(p) /\ c.Limiter.nil
               /\ \/ f.op = "Do" /\ f.dom.UseLimiter
                  \/ f.op = "Get" /\ f.getm.UseLimiter /\ ~f.getm.UseCache
                       /\ f.url \in Urls)
            => (f.resp.nil /\ f.err = ErrLimiter)

\* C3: On a client without a cache, every Get whose modifiers leave UseCache
\* set returns no response and the error "cache not defined", without
\* touching the limiter or the transport, whatever the url, the limiter
\* modifier and the limiter are.
C3_CacheRequired ==
    \A p \in Procs :
        LET f == frame[p]
        IN  (f.op = "Get" /\ pc[p] # "Get_cache" /\ f.getm.UseCache
               /\ c.Cache.nil)
            => (Done(p) /\ f.resp.nil /\ f.err = ErrCache
                  /\ f.sent = 0 /\ f.consumed = 0)

C3_Witness ==
    \E p \in Procs :
        /\ Done(p) /\ frame[p].op = "Get" /\ frame[p].err = ErrCache
        /\ frame[p].getm.UseCache /\ frame[p].getm.UseLimiter
        /\ c.Cache.nil /\ ~c.Limiter.nil

\* C4: Every completed Do or Get returns either a response and no error, or
\* no response and an error.
C4_AllOrNothing ==
    \A p \in Procs :
        Done(p) => (frame[p].resp.nil <=> frame[p].err # NoErr)

\* C5: Every entry of the cache maps a url to a response the transport gave
\* for a GET of that url; no nil and no failed result is stored.
C5_CacheContent ==
    \A u \in DOMAIN store :
        /\ ~store[u].nil
        /\ store[u].req = Request("GET", u)

\* C6: On a client with a cache and a limiter, a Get with UseCache and
\* UseLimiter set that finds its url in the cache returns the cached value
\* with no error, having taken no token and made no transport call.
C6_HitBypassesLimiter ==
    \A p \in Procs :
        LET f == frame[p]
        IN  (f.op = "Get" /\ pc[p] # "Get_cache" /\ f.getm.UseCache
               /\ f.getm.UseLimiter /\ f.found
               /\ ~c.Cache.nil /\ ~c.Limiter.nil)
            => (Done(p) /\ f.resp = f.cached /\ f.err = NoErr
                  /\ f.consumed = 0 /\ f.sent = 0)

C6_Witness ==
    \E p \in Procs :
        /\ Done(p) /\ frame[p].op = "Get" /\ frame[p].found
        /\ frame[p].getm.UseCache /\ frame[p].getm.UseLimiter
        /\ ~c.Cache.nil /\ ~c.Limiter.nil
        /\ tokens = c.Limiter.burst /\ regenerated = 0

\* C7: On a client with a limiter, a Get with UseLimiter set that is not
\* served from the cache has taken exactly one token by the time it calls
\* the transport.
C7_GetForwardsLimiter ==
    \A p \in Procs :
        LET f == frame[p]
        IN  (f.op = "Get" /\ f.getm.UseLimiter /\ ~c.Limiter.nil
               /\ (pc[p] = "Do_http" \/ f.sent > 0))
            => f.consumed = 1

\* The callers that hold a token and have not yet called the transport.
Holding == {p \in Procs : pc[p] = "Do_http" /\ frame[p].consumed = 1}

\* C8: With a limiter of burst B that starts full, the Do calls with
\* UseLimiter set that have called the transport are at most B plus the
\* tokens regenerated; every token is accounted for, so a token is there for
\* each of the first B such calls and the next one waits for a regeneration.
C8_LimiterGating ==
    ~c.Limiter.nil =>
        /\ tokens >= 0
        /\ limitedSent <= c.Limiter.burst + regenerated
        /\ tokens + limitedSent + Cardinality(Holding)
             = c.Limiter.burst + regenerated

C8_Witness ==
    /\ ~c.Limiter.nil
    /\ c.Limiter.burst >= 1
    /\ regenerated >= 1
    /\ limitedSent = c.Limiter.burst + 1

\* C9: Building another client with New changes no client built before:
\* not its fields, and not the timeout in force on its transport.
C9_ClientsIndependent ==
    [][\A i \in 1 .. Len(clients) :
          /\ clients'[i] = clients[i]
          /\ EffectiveTimeout(clients[i], heap')
               = EffectiveTimeout(clients[i], heap)]_vars

GetStoreStep(p) == pc[p] = "Get_after" /\ pc'[p] = "done"

\* The step in which caller p's Get is served from the cache.
HitStep(p) == pc[p] = "Get_cache" /\ pc'[p] = "done" /\ frame'[p].found

\* C11: The cache is keyed by the url as given.  The step in which a Get(A)
\* ends leaves every other key as it was: neither there nor gone, nor with
\* another value; and a Get(B) served from the cache returns the value that
\* is under B.
C11_KeysDoNotCollide ==
    [][\A p \in Procs :
          /\ GetStoreStep(p) =>
               \A u \in GetUrls \ {frame[p].url} :
                   /\ (u \in DOMAIN store') <=> (u \in DOMAIN store)
                   /\ u \in DOMAIN store => store'[u] = store[u]
          /\ HitStep(p) =>
               /\ frame[p].url \in DOMAIN store
               /\ frame'[p].resp = store[frame[p].url]]_vars

C11_Witness ==
    \E p \in Procs :
        /\ frame[p].op = "Get" /\ frame[p].url = "b" /\ frame[p].getm.UseCache
        /\ frame[p].reads = 1 /\ ~frame[p].found
        /\ "a" \in DOMAIN store /\ "b" \notin DOMAIN store

\* The errors that reject a call before the transport is reached, as the
\* claim lists them.
RejectErrors == {ErrLimiter, ErrCache, ErrWait}

\* C12 as stated: a call makes at most one transport call, and exactly one
\* unless a configuration error or the limiter's error rejected it or the
\* cache served it; a transport failure comes back as the error.
C12_NoRetries_Stated ==
    \A p \in Procs :
        LET f == frame[p]
        IN  /\ f.sent <= 1
            /\ Done(p) =>
                 f.sent = IF f.err \in RejectErrors \/ (f.op = "Get" /\ f.found)
                          THEN 0 ELSE 1

\* C12: a call makes at most one transport call, and exactly one unless a
\* configuration error, the limiter's error or http.NewRequest's error
\* rejected it or the cache served it; a transport failure comes back as
\* the error, with no response and after that one call.
C12_NoRetries ==
    \A p \in Procs :
        LET f == frame[p]
        IN  /\ f.sent <= 1
            /\ Done(p) =>
                 /\ f.sent = IF f.err \in RejectErrors \cup {ErrURL}
                                  \/ (f.op = "Get" /\ f.found)
                             THEN 0 ELSE 1
                 /\ f.err = ErrTransport => f.resp.nil

C12_Witness ==
    \E p \in Procs, q \in Procs :
        /\ Done(p) /\ frame[p].op = "Get" /\ frame[p].err = ErrTransport
        /\ frame[p].sent = 1
        /\ Done(q) /\ frame[q].op = "Get" /\ frame[q].err = ErrURL
        /\ frame[q].sent = 0

\* Caller p's Get(u) with UseCache set missed the cache, got a response from
\* the transport and has returned.
FetchedMiss(p, u) ==
    /\ Done(p) /\ frame[p].op = "Get" /\ frame[p].url = u
    /\ frame[p].getm.UseCache /\ ~frame[p].found
    /\ frame[p].sent = 1 /\ frame[p].err = NoErr

\* C13: When two Gets of one url with UseCache set have both missed the
\* cache, both got a response from the transport and both returned, both
\* have stored, and the cache holds under that url the response of one of
\* them (the one that stored last).
C13_BothStore ==
    \A u \in Urls :
        (FetchedMiss(1, u) /\ FetchedMiss(2, u) /\ ~c.Cache.nil)
        => /\ frame[1].writes = 1 /\ frame[2].writes = 1
           /\ u \in DOMAIN store
           /\ store[u] \in {Response(frame[1].req, frame[1].id),
                            Response(frame[2].req, frame[2].id)}

\* C16: A call that returns "limiter not defined", "cache not defined" or
\* the error of the limiter's Wait has made no transport call and no write
\* to the cache; with either of the first two it has taken no token.
C16_EarlyErrorsTouchNothing ==
    \A p \in Procs :
        LET f == frame[p]
        IN  (Done(p) /\ f.err \in RejectErrors)
            => /\ f.sent = 0 /\ f.writes = 0 /\ f.resp.nil
               /\ f.err \in {ErrLimiter, ErrCache} => f.consumed = 0

C16_Witness ==
    \E p \in Procs :
        /\ Done(p) /\ frame[p].op = "Do" /\ frame[p].err = ErrWait
        /\ "a" \in DOMAIN store

\* C17 as stated: a Get whose modifiers leave UseCache unset never reads or
\* writes the cache, never returns "cache not defined", and calls the
\* transport unless the limiter step rejects it.
C17_NoCacheModifier_Stated ==
    \A p \in Procs :
        LET f == frame[p]
        IN  (f.op = "Get" /\ ~f.getm.UseCache)
            => /\ f.reads = 0 /\ f.writes = 0 /\ ~f.found /\ f.err # ErrCache
               /\ (Done(p) /\ f.err \notin {ErrLimiter, ErrWait}) => f.sent = 1

\* C17: a Get whose modifiers leave UseCache unset never reads or writes the
\* cache, never returns "cache not defined", and, when http.NewRequest takes
\* its url, calls the transport unless the limiter step rejects it.
C17_NoCacheModifier ==
    \A p \in Procs :
        LET f == frame[p]
        IN  (f.op = "Get" /\ ~f.getm.UseCache)
            => /\ f.reads = 0 /\ f.writes = 0 /\ ~f.found /\ f.err # ErrCache
               /\ (Done(p) /\ f.err \notin {ErrLimiter, ErrWait})
                    => f.sent = IF f.url \in Urls THEN 1 ELSE 0

C17_Witness ==
    \E p \in Procs :
        /\ Done(p) /\ frame[p].op = "Get" /\ ~frame[p].getm.UseCache
        /\ frame[p].url \in DOMAIN store /\ frame[p].sent = 1
        /\ frame[p].reads = 0


(***************************************************************************)
(* The modifiers alone: callers build the Modifiers of a call from the     *)
(* list they give, call after call.                                        *)
(***************************************************************************)
\* modifiers := &Modifiers{}; for _, mod := range mods { mod(modifiers) },
\* at the head of Do and of Get.
BuildModifiers(p) ==
    /\ pc[p] = "idle"
    /\ \E op \in {"Do", "Get"}, mods \in ModLists :
         /\ modArgs' = [modArgs EXCEPT ![p] = mods]
         /\ frame' = [frame EXCEPT ![p] =
                        IF op = "Do"
                        THEN [IdleFrame EXCEPT !.op = op, !.c0 = c,
                                               !.dom = ApplyMods(mods)]
                        ELSE [IdleFrame EXCEPT !.op = op, !.c0 = c,
                                               !.getm = ApplyMods(mods)]]
    /\ pc' = [pc EXCEPT ![p] = "built"]
    /\ UNCHANGED <<newvars, newArgs, store, tokens, regenerated, started,
                   limitedSent, fetched>>

\* The call ends; its Modifiers are gone.
DropModifiers(p) ==
    /\ pc[p] = "built"
    /\ pc' = [pc EXCEPT ![p] = "idle"]
    /\ frame' = [frame EXCEPT ![p] = IdleFrame]
    /\ modArgs' = [modArgs EXCEPT ![p] = << >>]
    /\ UNCHANGED <<newvars, newArgs, store, tokens, regenerated, started,
                   limitedSent, fetched>>

NextMods == \E p \in Procs : BuildModifiers(p) \/ DropModifiers(p)

SpecMods == Init /\ [][NextMods]_vars

\* The largest member of a non-empty set of numbers.
Max(S) == CHOOSE x \in S : \A y \in S : y <= x

\* The places in mods of the toggles named name.
TogglesOf(mods, name) == {i \in 1 .. Len(mods) : mods[i].m = name}

\* The argument of the last toggle named name in mods, FALSE without one.
LastUse(mods, name) ==
    IF TogglesOf(mods, name) = {} THEN FALSE
    ELSE mods[Max(TogglesOf(mods, name))].use

\* C14: The Modifiers of a call start with both flags false and take the
\* toggles in order: each flag is the argument of the last toggle for it in
\* the call's own list, false without one, whatever the toggles for the
\* other flag and whatever earlier calls were given.
C14_ModifiersInOrder ==
    \A p \in Procs :
        pc[p] = "built" =>
            LET m == IF frame[p].op = "Do" THEN frame[p].dom ELSE frame[p].getm
            IN  /\ m.UseCache = LastUse(modArgs[p], "UseCache")
                /\ m.UseLimiter = LastUse(modArgs[p], "UseLimiter")

C14_Witness ==
    \E p \in Procs :
        /\ pc[p] = "built" /\ frame[p].op = "Get"
        /\ modArgs[p] = <<UseCache(TRUE), UseCache(FALSE)>>
        /\ frame[p].getm = ZeroModifiers
        /\ \E q \in Procs :
             /\ pc[q] = "built"
             /\ modArgs[q] = <<UseLimiter(FALSE), UseLimiter(TRUE)>>
             /\ frame[q].dom = [UseCache |-> FALSE, UseLimiter |-> TRUE]

(***************************************************************************)
(* New alone: one client is built, from any option and any features.       *)
(***************************************************************************)
BuildFeats ==
    Feats \cup {WithCache(1, 2)} \cup {WithLimiter(DefaultLimit, b) : b \in Bursts}
BuildFeatLists == SeqsUpTo(BuildFeats, MaxFeats)

\* client := New(option, feats...), the first client built.
Build ==
    /\ clients = << >>
    /\ \E option \in Options, feats \in BuildFeatLists :
         LET built == New(option, feats, heap)
         IN  /\ clients' = <<built.client>>
             /\ heap' = built.heap
             /\ newArgs' = <<[option |-> option, feats |-> feats]>>
    /\ UNCHANGED <<opvars, modArgs>>

NextBuild == Build

SpecBuild == InitNew /\ [][NextBuild]_vars

\* The places in feats of the features of kind f.
FeatsOf(feats, f) == {i \in 1 .. Len(feats) : feats[i].f = f}

\* The last feature of kind f in feats.
LastFeat(feats, f) == feats[Max(FeatsOf(feats, f))]

\* C15: The client New returns has the transport its option chose (and the
\* credentials, if the option gave any), and each of timeout, cache and
\* limiter as the last feature for that field set it, whatever features for
\* other fields stand before or after: no timeout, no cache and no limiter
\* without a feature for it.  The timeout set is also the one in force on
\* the transport.
C15_NewAppliesInOrder ==
    newArgs # << >> =>
        LET option == newArgs[1].option
            feats == newArgs[1].feats
            client == clients[1]
        IN  /\ client.HTTP = IF option.o = "FromClient" THEN option.http
                             ELSE Len(InitHeap)
            /\ client.Credentials = option.cred
            /\ client.Timeout =
                 IF FeatsOf(feats, "WithTimeout") = {} THEN 0
                 ELSE LastFeat(feats, "WithTimeout").duration
            /\ EffectiveTimeout(client, heap) = client.Timeout
            /\ client.Cache =
                 IF FeatsOf(feats, "WithCache") = {} THEN Nil
                 ELSE NewCache(LastFeat(feats, "WithCache").a,
                               LastFeat(feats, "WithCache").b)
            /\ client.Limiter =
                 IF FeatsOf(feats, "WithLimiter") = {} THEN Nil
                 ELSE NewLimiter(LastFeat(feats, "WithLimiter").a,
                                 LastFeat(feats, "WithLimiter").b)

C15_Witness ==
    /\ newArgs # << >>
    /\ newArgs[1].option = FromClient(CallerClient)
    /\ newArgs[1].feats = <<WithDefaultCache, WithCache(1, 2)>>
    /\ clients[1].Cache = NewCache(1, 2)
    /\ clients[1].Limiter.nil
    /\ clients[1].HTTP = CallerClient


(***************************************************************************)
(* Do and Get on a client whose limiter has a burst of at least one, with  *)
(* time passing (the limiter regenerates tokens), a transport that always  *)
(* answers, and callers that go on when they can.  The client has no       *)
(* cache: Do never looks at one, and Get never comes to the limiter.       *)
(***************************************************************************)
InitLive == Init /\ ~c.Limiter.nil /\ c.Limiter.burst >= 1 /\ c.Cache.nil

Fairness ==
    /\ WF_vars(Regenerate)
    /\ \A p \in Procs : WF_vars(DoLimiter(p)) /\ WF_vars(DoHTTP(p))

LiveSpec == InitLive /\ [][Next]_vars /\ Fairness

\* Caller p is in a Do with UseLimiter set, at the limiter.
AtLimiter(p) ==
    pc[p] = "Do_limiter" /\ frame[p].op = "Do" /\ frame[p].dom.UseLimiter

\* C18: With a limiter of burst at least one that regenerates, every Do
\* with UseLimiter set that reaches the limiter comes to call the transport
\* once and return, however many callers there are.
C18_LimitedDoReturns ==
    \A p \in Procs : AtLimiter(p) ~> (Done(p) /\ frame[p].sent = 1)

C18_Witness ==
    \E p \in Procs, q \in Procs :
        /\ AtLimiter(p) /\ tokens = 0 /\ regenerated = 0
        /\ pc[q] = "Do_http" /\ frame[q].consumed = 1

=============================================================================
